---- MODULE Spec2Model ----
(***************************************************************************)
(* Model of the budget aggregation and persistence layer of the personal   *)
(* finance dashboard: FinanceDatabase (src/database.py) and the callers    *)
(* that drive it (src/ui_components.py, src/data_source.py).               *)
(*                                                                         *)
(* Conventions                                                             *)
(*  - A JSON object / Python dict is a TLA+ function whose domain is a set *)
(*    of strings; the empty dict {} is EmptyDict.  d.get(k, default) is    *)
(*    Get(d, k, default).                                                  *)
(*  - A durable file is a record [valid, json]: valid is FALSE when the    *)
(*    text on disk does not parse as JSON (json.load raises                *)
(*    JSONDecodeError), otherwise json is the parsed object.               *)
(*  - An ISO date "YYYY-MM-DD" is the tuple <<YYYY, MM, DD>> and a month   *)
(*    "YYYY-MM" the tuple <<YYYY, MM>>: the fields are fixed-width and     *)
(*    zero-padded, so str.startswith is the tuple prefix test and string   *)
(*    comparison is the comparison of the digits read as one number.       *)
(*  - Amounts are whole currency units and percentages whole percents;     *)
(*    revenues are multiples of 100, so that (revenue * percentage) / 100  *)
(*    is exact.  Floating-point rounding is outside the model.             *)
(*  - datetime.now() reads the variable now, a tick counter; a timestamp   *)
(*    is the tick at which it was taken.                                   *)
(*  - A Python str is the sequence of its characters.  A float is a record *)
(*    [kind, num, den]: the fraction num/den when kind is "finite",        *)
(*    otherwise "nan" or "inf".                                            *)
(*  - A call that raises leaves a record without the ret field in last,    *)
(*    with the exception in the raised field.                              *)
(***************************************************************************)
EXTENDS Integers, Sequences, FiniteSets, TLC

VARIABLES
    settings_file,        \* content of user_settings.json
    daily_results_file,   \* content of daily_results.json
    now,                  \* the wall clock read by datetime.now()
    last,                 \* the most recent call: its name, arguments and return value
    sheet,                \* the remote worksheet read by sheet.get_all_values()
    denied,               \* the durable files the system refuses to open
    calls                 \* the save_daily_expenses calls in progress, one per session

vars == <<settings_file, daily_results_file, now, last, sheet, denied, calls>>

\* what the calls on the two stores leave alone
outside == <<sheet, denied, calls>>

(***************************************************************************)
(* Bounds of the model                                                     *)
(***************************************************************************)
\* the clock takes the values 0..MaxClock
MaxClock == 2
\* a saved DataFrame, and a fetched sheet, has at most MaxTx data rows
MaxTx == 2
\* a text handed to clean_currency_value has at most MaxChars characters
MaxChars == 3

(***************************************************************************)
(* Program constants                                                       *)
(***************************************************************************)
\* FinanceDatabase.__init__: self.expense_classes
expense_classes ==
    <<"Lazer", "Limpeza", "Roupas", "Lavanderia", "Mercado", "Casa",
      "Restaurante", "Aluguel", "Luz", "Internet", "Farmácia", "Carro">>

ExpenseClassSet == {expense_classes[i] : i \in 1..Len(expense_classes)}

\* default_settings["monthly_expected_revenue"]
DefaultRevenue == 5000

\* default_settings["expense_class_percentages"]; the same literal is the
\* default_percentages of the sidebar's reset button
default_percentages ==
    [c \in ExpenseClassSet |->
        CASE c = "Lazer"       -> 10
          [] c = "Limpeza"     -> 3
          [] c = "Roupas"      -> 8
          [] c = "Lavanderia"  -> 2
          [] c = "Mercado"     -> 25
          [] c = "Casa"        -> 10
          [] c = "Restaurante" -> 15
          [] c = "Aluguel"     -> 20
          [] c = "Luz"         -> 3
          [] c = "Internet"    -> 2
          [] c = "Farmácia"    -> 2
          [] c = "Carro"       -> 0]

\* update_settings: "if total_percentage > 150"
MaxPercentageSum == 150

\* save_daily_expenses: "[:90]"
RetentionLimit == 90

(***************************************************************************)
(* Dicts, files and sums                                                   *)
(***************************************************************************)
EmptyDict == [k \in {} |-> 0]

\* dict.get(key, default)
Get(d, k, default) == IF k \in DOMAIN d THEN d[k] ELSE default

\* d[k] = v on a dict (adds the key when absent)
Put(d, k, v) == [x \in (DOMAIN d) \cup {k} |-> IF x = k THEN v ELSE d[x]]

\* a file holding the JSON text of obj
ValidFile(obj) == [valid |-> TRUE, json |-> obj]

\* a file whose text is not JSON: opened for writing (truncated) and not,
\* or not completely, written
TornFile == [valid |-> FALSE, json |-> EmptyDict]

\* sum(d.values())
RECURSIVE SumValues(_)
SumValues(d) ==
    IF DOMAIN d = {} THEN 0
    ELSE LET k == CHOOSE x \in DOMAIN d : TRUE
         IN  d[k] + SumValues([x \in (DOMAIN d) \ {k} |-> d[x]])

\* sum(...) over a sequence of numbers
RECURSIVE SumSeq(_)
SumSeq(s) == IF s = <<>> THEN 0 ELSE Head(s) + SumSeq(Tail(s))

\* FinanceDatabase._load_json: the parsed object, {} when the file does not parse
_load_json(file) == IF file.valid THEN file.json ELSE EmptyDict

\* FinanceDatabase._save_json under the outcome io of the write:
\*   "ok"     open(filename, 'w') and json.dump both succeed
\*   "denied" open raises (the file is left as it was)
\*   "torn"   open truncates the file, then json.dump raises or the process is
\*            interrupted before the text is complete
\* The result is the file afterwards and whether an exception was raised.
_save_json(file, data, io) ==
    CASE io = "ok"     -> [file |-> ValidFile(data), raised |-> FALSE]
      [] io = "denied" -> [file |-> file,            raised |-> TRUE]
      [] io = "torn"   -> [file |-> TornFile,        raised |-> TRUE]

IoOutcomes == {"ok", "denied", "torn"}

\* what a call that ends with a write leaves and returns: "return True" after
\* _save_json, "except Exception: return False" when it raised
Written(saved) == [file |-> saved.file, ret |-> ~saved.raised]

(***************************************************************************)
(* Budget configuration store                                              *)
(***************************************************************************)
\* FinanceDatabase._initialize_files, settings part: the file written on first run
default_settings(t) ==
    [monthly_expected_revenue  |-> DefaultRevenue,
     expense_class_percentages |-> default_percentages,
     last_updated              |-> t]

\* FinanceDatabase._initialize_files, daily results part
default_results == [daily_expenses |-> <<>>, monthly_summaries |-> <<>>]

\* FinanceDatabase.get_settings
get_settings(file) == _load_json(file)

\* mutant of ExceedsLimit: the comparison taken as >=
ExceedsLimit_AtLeast(class_percentages) ==
    SumValues(class_percentages) >= MaxPercentageSum

\* update_settings: the validation "total_percentage > 150"
ExceedsLimit(class_percentages) == SumValues(class_percentages) > MaxPercentageSum

\* mutant of update_settings: the file is written before the sum is validated
update_settings_WriteFirst(file, monthly_revenue, class_percentages, t, io) ==
    LET settings == Put(Put(Put(get_settings(file),
                        "monthly_expected_revenue", monthly_revenue),
                        "expense_class_percentages", class_percentages),
                        "last_updated", t)
        saved == _save_json(file, settings, io)
    IN  [file |-> saved.file,
         ret |-> ~saved.raised /\ ~ExceedsLimit(class_percentages)]

\* FinanceDatabase.update_settings: the settings file afterwards and the
\* boolean returned, for a call at clock t whose write has outcome io
update_settings(file, monthly_revenue, class_percentages, t, io) ==
    LET settings == Put(Put(Put(get_settings(file),
                        "monthly_expected_revenue", monthly_revenue),
                        "expense_class_percentages", class_percentages),
                        "last_updated", t)
    IN  IF ExceedsLimit(class_percentages)
        THEN [file |-> file, ret |-> FALSE]
        ELSE Written(_save_json(file, settings, io))

\* mutant of get_expected_amounts: the percentage applied as a fraction
get_expected_amounts_NoDivision(file) ==
    LET settings == get_settings(file)
        monthly_revenue == Get(settings, "monthly_expected_revenue", 0)
        percentages == Get(settings, "expense_class_percentages", EmptyDict)
    IN  [class_name \in DOMAIN percentages |->
            monthly_revenue * percentages[class_name]]

\* FinanceDatabase.get_expected_amounts
get_expected_amounts(file) ==
    LET settings == get_settings(file)
        monthly_revenue == Get(settings, "monthly_expected_revenue", 0)
        percentages == Get(settings, "expense_class_percentages", EmptyDict)
    IN  [class_name \in DOMAIN percentages |->
            (monthly_revenue * percentages[class_name]) \div 100]

(***************************************************************************)
(* Dates                                                                   *)
(***************************************************************************)
\* target_date=None / month=None
None == <<>>

\* The place of a date string in the order of strings.  The fields of an ISO
\* date are zero-padded to a fixed width, so the strings compare as the
\* numbers made of their digits do; the empty string comes before them all.
DateOrdinal(d) == IF d = None THEN 0 ELSE d[1] * 10000 + d[2] * 100 + d[3]

\* str.startswith(prefix)
StartsWith(s, prefix) ==
    Len(prefix) <= Len(s) /\ SubSeq(s, 1, Len(prefix)) = prefix

\* date.today().isoformat() when the clock reads t: two ticks to a day,
\* 2025-01-31 first and the days of February after it
Today(t) == IF t \div 2 = 0 THEN <<2025, 1, 31>> ELSE <<2025, 2, t \div 2>>

\* date.today().strftime("%Y-%m")
CurrentMonth(t) == SubSeq(Today(t), 1, 2)

(***************************************************************************)
(* Daily rollup store                                                      *)
(***************************************************************************)
\* A DataFrame is [columns, rows]: the set of column names and the rows in
\* order, each row a record of the columns.  pd.DataFrame() has neither.
HasColumn(df, name) == name \in df.columns

\* df['Value'].sum()
ValueSum(rows) == SumSeq([i \in 1..Len(rows) |-> rows[i].Value])

\* df[df['Class'] == class_name]
RowsOfClass(rows, class_name) == SelectSeq(rows, LAMBDA r : r.Class = class_name)

\* mutant of _calculate_totals_by_class: a total for every class that occurs
\* in the DataFrame, recognised or not
_calculate_totals_by_class_AllClasses(df) ==
    IF ~HasColumn(df, "Class") \/ ~HasColumn(df, "Value")
    THEN EmptyDict
    ELSE [class_name \in ExpenseClassSet \cup {df.rows[i].Class : i \in 1..Len(df.rows)} |->
            ValueSum(RowsOfClass(df.rows, class_name))]

\* FinanceDatabase._calculate_totals_by_class
_calculate_totals_by_class(df) ==
    IF ~HasColumn(df, "Class") \/ ~HasColumn(df, "Value")
    THEN EmptyDict
    ELSE [class_name \in ExpenseClassSet |->
            ValueSum(RowsOfClass(df.rows, class_name))]

\* save_daily_expenses: the entry built for the DataFrame
daily_data(expenses_df, target_date, t) ==
    [date          |-> target_date,
     expenses      |-> expenses_df.rows,
     total_by_class |-> _calculate_totals_by_class(expenses_df),
     total_amount  |-> IF HasColumn(expenses_df, "Value")
                       THEN ValueSum(expenses_df.rows) ELSE 0,
     timestamp     |-> t]

\* mutant of RemoveDate: the existing entry is kept
RemoveDate_KeepAll(entries, target_date) == entries

\* save_daily_expenses: "Remove existing entry for the same date"
RemoveDate(entries, target_date) ==
    SelectSeq(entries, LAMBDA entry : Get(entry, "date", None) # target_date)

\* the sort keys of the entries, key=lambda x: x.get("date", ""), as a tuple
SortKeys(entries) ==
    SubSeq([i \in 1..Len(entries) |-> DateOrdinal(Get(entries[i], "date", None))],
           1, Len(entries))

\* the place of each key in the stable descending sort, as a tuple: a key
\* comes behind the greater keys and behind the equal keys that preceded it
SortPlaces(key) ==
    SubSeq([i \in 1..Len(key) |->
                1 + Cardinality({j \in 1..Len(key) :
                        key[i] < key[j] \/ (key[j] = key[i] /\ j < i)})],
           1, Len(key))

\* the entries laid out by place
ArrangeByPlace(entries, place) ==
    [p \in 1..Len(entries) |-> entries[CHOOSE i \in 1..Len(entries) : place[i] = p]]

\* sorted(entries, key=lambda x: x.get("date", ""), reverse=True)
SortedByDateDesc(entries) == ArrangeByPlace(entries, SortPlaces(SortKeys(entries)))

\* entries[:n]
Truncate(entries, n) ==
    SubSeq(entries, 1, IF Len(entries) < n THEN Len(entries) ELSE n)

\* mutant of Upsert: the entries are cut to the limit without being sorted
Upsert_NoSort(entries, entry) ==
    Truncate(Append(RemoveDate(entries, entry.date), entry), RetentionLimit)

\* mutant of Upsert: a new entry for a stored date is added to the stored
\* one (its transactions appended, its totals summed) instead of replacing it
Upsert_Additive(entries, entry) ==
    LET old == SelectSeq(entries, LAMBDA e : Get(e, "date", None) = entry.date)
        merged == IF old = <<>> THEN entry
                  ELSE [entry EXCEPT
                          !.expenses = old[1].expenses \o entry.expenses,
                          !.total_amount = old[1].total_amount + entry.total_amount,
                          !.total_by_class =
                              [c \in DOMAIN entry.total_by_class |->
                                  Get(old[1].total_by_class, c, 0) + entry.total_by_class[c]]]
    IN  Truncate(SortedByDateDesc(Append(RemoveDate(entries, entry.date), merged)),
                 RetentionLimit)

\* save_daily_expenses: remove, append, sort, keep the last 90 days
Upsert(entries, entry) ==
    Truncate(SortedByDateDesc(Append(RemoveDate(entries, entry.date), entry)),
             RetentionLimit)

\* json.dump accepts str, float, dict and list.  The values of a Data column
\* are the pandas Timestamps of pd.to_datetime, which to_dict('records')
\* hands over as they are: json.dump raises TypeError on the first of them,
\* after open(filename, 'w') has truncated the file and the text before that
\* value has been written.
JsonSerializable(rows) == \A i \in 1..Len(rows) : "Data" \notin DOMAIN rows[i]

\* the outcome of _save_json for an entry, given the outcome io of the medium
DumpOutcome(entry, io) ==
    IF io = "ok" /\ ~JsonSerializable(entry.expenses) THEN "torn" ELSE io

\* FinanceDatabase.save_daily_expenses: the daily results file afterwards and
\* the boolean returned, for a call at clock t whose write has outcome io.
\* results["daily_expenses"] raises KeyError when the file did not parse.
save_daily_expenses(file, expenses_df, target_date, t, io) ==
    LET date == IF target_date = None THEN Today(t) ELSE target_date
        results == _load_json(file)
    IN  IF "daily_expenses" \notin DOMAIN results
        THEN [file |-> file, ret |-> FALSE]
        ELSE Written(_save_json(file,
                Put(results, "daily_expenses",
                    Upsert(results["daily_expenses"], daily_data(expenses_df, date, t))),
                DumpOutcome(daily_data(expenses_df, date, t), io)))

\* mutant of save_daily_expenses_write: the store is read again at the write
save_daily_expenses_write_Reread(file, results, expenses_df, date, t, io) ==
    IF "daily_expenses" \notin DOMAIN _load_json(file)
    THEN [file |-> file, ret |-> FALSE]
    ELSE Written(_save_json(file,
            Put(_load_json(file), "daily_expenses",
                Upsert(_load_json(file)["daily_expenses"],
                       daily_data(expenses_df, date, t))),
            DumpOutcome(daily_data(expenses_df, date, t), io)))

\* save_daily_expenses after results = self._load_json(...): the entry is
\* put into the results that were read, and they are written over the file
save_daily_expenses_write(file, results, expenses_df, date, t, io) ==
    IF "daily_expenses" \notin DOMAIN results
    THEN [file |-> file, ret |-> FALSE]
    ELSE Written(_save_json(file,
            Put(results, "daily_expenses",
                Upsert(results["daily_expenses"], daily_data(expenses_df, date, t))),
            DumpOutcome(daily_data(expenses_df, date, t), io)))

(***************************************************************************)
(* Monthly summary                                                         *)
(***************************************************************************)
\* mutant of monthly_expenses: the entries are not filtered by month
monthly_expenses_AllMonths(daily_expenses, month) == daily_expenses

\* get_monthly_summary: "Filter expenses for the specified month"
monthly_expenses(daily_expenses, month) ==
    SelectSeq(daily_expenses,
              LAMBDA entry : StartsWith(Get(entry, "date", None), month))

\* get_monthly_summary: the summary made of the month's entries
Summarize(month, entries, config_file) ==
    [month            |-> month,
     total_amount     |-> SumSeq([i \in 1..Len(entries) |->
                                    Get(entries[i], "total_amount", 0)]),
     total_by_class   |-> [class_name \in ExpenseClassSet |->
                            SumSeq([i \in 1..Len(entries) |->
                                Get(Get(entries[i], "total_by_class", EmptyDict),
                                    class_name, 0)])],
     daily_entries    |-> Len(entries),
     expected_amounts |-> get_expected_amounts(config_file),
     expected_revenue |-> Get(get_settings(config_file),
                              "monthly_expected_revenue", 0)]

\* mutant of get_monthly_summary: the expected amounts and revenue come from
\* the configuration read when the process started, not from the file
get_monthly_summary_StartupConfig(results_file, config_file, month_arg, t) ==
    LET month == IF month_arg = None THEN CurrentMonth(t) ELSE month_arg
    IN  Summarize(month,
                  monthly_expenses(Get(_load_json(results_file), "daily_expenses", <<>>),
                                   month),
                  ValidFile(default_settings(0)))

\* FinanceDatabase.get_monthly_summary, called at clock t
get_monthly_summary(results_file, config_file, month_arg, t) ==
    LET month == IF month_arg = None THEN CurrentMonth(t) ELSE month_arg
    IN  Summarize(month,
                  monthly_expenses(Get(_load_json(results_file), "daily_expenses", <<>>),
                                   month),
                  config_file)

(***************************************************************************)
(* Currency normalizer                                                     *)
(***************************************************************************)
\* str.strip() on a text whose only whitespace is the blank
RECURSIVE LStrip(_)
LStrip(s) == IF s # <<>> /\ Head(s) = " " THEN LStrip(Tail(s)) ELSE s

RECURSIVE RStrip(_)
RStrip(s) ==
    IF s # <<>> /\ s[Len(s)] = " " THEN RStrip(SubSeq(s, 1, Len(s) - 1)) ELSE s

Strip(s) == RStrip(LStrip(s))

\* str.replace('R$', ''): the occurrences from left to right, in one pass
RECURSIVE RemoveRS(_)
RemoveRS(s) ==
    IF Len(s) < 2 THEN s
    ELSE IF s[1] = "R" /\ s[2] = "$" THEN RemoveRS(SubSeq(s, 3, Len(s)))
    ELSE <<s[1]>> \o RemoveRS(Tail(s))

\* str.replace('$', '')
RemoveDollar(s) == SelectSeq(s, LAMBDA c : c # "$")

\* str.replace(',', '.')
CommaToPoint(s) == [i \in 1..Len(s) |-> IF s[i] = "," THEN "." ELSE s[i]]

Digits == {"0", "1", "2", "3", "4", "5", "6", "7", "8", "9"}

DigitValue(c) ==
    CASE c = "0" -> 0 [] c = "1" -> 1 [] c = "2" -> 2 [] c = "3" -> 3 [] c = "4" -> 4
      [] c = "5" -> 5 [] c = "6" -> 6 [] c = "7" -> 7 [] c = "8" -> 8 [] c = "9" -> 9

AllDigits(s) == \A i \in 1..Len(s) : s[i] \in Digits

\* the number written by a sequence of digits (0 for none)
RECURSIVE DigitsValue(_)
DigitsValue(s) ==
    IF s = <<>> THEN 0
    ELSE DigitsValue(SubSeq(s, 1, Len(s) - 1)) * 10 + DigitValue(s[Len(s)])

RECURSIVE Pow10(_)
Pow10(n) == IF n = 0 THEN 1 ELSE 10 * Pow10(n - 1)

\* floats
Finite(num, den) == [kind |-> "finite", num |-> num, den |-> den]
NaN == [kind |-> "nan", num |-> 0, den |-> 1]
Infinity(sign) == [kind |-> "inf", num |-> sign, den |-> 1]

\* float(text) for a text over digits, sign, point, blank and letters without
\* exponent: surrounding blanks are ignored, then an optional sign, then
\* "nan", "inf" or digits with at most one point and at least one digit;
\* anything else raises ValueError
float(text) ==
    LET s == Strip(text)
        signed == s # <<>> /\ s[1] \in {"-", "+"}
        sign == IF s # <<>> /\ s[1] = "-" THEN -1 ELSE 1
        body == IF signed THEN Tail(s) ELSE s
        points == {i \in 1..Len(body) : body[i] = "."}
        p == IF points = {} THEN Len(body) + 1 ELSE CHOOSE i \in points : TRUE
        whole == SubSeq(body, 1, p - 1)
        frac == SubSeq(body, p + 1, Len(body))
    IN  IF body = <<"n", "a", "n">> THEN [raised |-> FALSE, value |-> NaN]
        ELSE IF body = <<"i", "n", "f">> THEN [raised |-> FALSE, value |-> Infinity(sign)]
        ELSE IF /\ Cardinality(points) <= 1
                /\ AllDigits(whole) /\ AllDigits(frac)
                /\ Len(whole) + Len(frac) > 0
        THEN [raised |-> FALSE,
              value |-> Finite(sign * (DigitsValue(whole) * Pow10(Len(frac)) + DigitsValue(frac)),
                               Pow10(Len(frac)))]
        ELSE [raised |-> TRUE, value |-> Finite(0, 1)]

\* clean_currency_value for a str: pd.isna is False for it
clean_currency_value(value) ==
    IF Strip(value) = <<>> THEN Finite(0, 1)
    ELSE LET cleaned_value == Strip(CommaToPoint(RemoveDollar(RemoveRS(Strip(value)))))
         IN  IF float(cleaned_value).raised THEN Finite(0, 1)
             ELSE float(cleaned_value).value

(***************************************************************************)
(* Transaction ingestor and refresh cycle                                  *)
(***************************************************************************)
\* A worksheet is [fetch, rows]: fetch is "error" when sheet.get_all_values()
\* raises, otherwise rows is the list of lists of cells it returns, the header
\* first.  An amount or date cell is a text; a class or column name, which is
\* only ever compared, is a TLA+ string.

\* pd.DataFrame()
EmptyFrame == [columns |-> {}, rows |-> <<>>]

\* df.empty
Empty(df) == Len(df.rows) = 0 \/ df.columns = {}

\* pd.DataFrame(data, columns=columns): the cells of each row under the
\* column names, by position
DataFrame(data, columns) ==
    [columns |-> {columns[i] : i \in 1..Len(columns)},
     rows |-> [k \in 1..Len(data) |->
                 [c \in {columns[i] : i \in 1..Len(columns)} |->
                     data[k][CHOOSE i \in 1..Len(columns) : columns[i] = c]]]]

\* the float of an amount as whole currency units (the amounts of the
\* worksheets of the model are whole)
AsUnits(x) == x.num \div x.den

\* df['Value'] = df['Value'].apply(clean_currency_value)
CleanValues(df) ==
    IF ~HasColumn(df, "Value") THEN df
    ELSE [columns |-> df.columns,
          rows |-> [k \in 1..Len(df.rows) |->
                      Put(df.rows[k], "Value",
                          AsUnits(clean_currency_value(df.rows[k].Value)))]]

DaysIn(y, m) ==
    CASE m \in {1, 3, 5, 7, 8, 10, 12} -> 31
      [] m \in {4, 6, 9, 11} -> 30
      [] m = 2 -> IF y % 4 = 0 /\ (y % 100 # 0 \/ y % 400 = 0) THEN 29 ELSE 28
      [] OTHER -> 0

\* the missing Timestamp
NaT == <<>>

\* pd.to_datetime(..., errors='coerce') on one cell, for the text
\* "YYYY-MM-DD" of a calendar date and for texts that are no date: the
\* Timestamp, or NaT
to_datetime(text) ==
    IF /\ Len(text) = 10
       /\ text[5] = "-" /\ text[8] = "-"
       /\ AllDigits(SubSeq(text, 1, 4))
       /\ AllDigits(SubSeq(text, 6, 7))
       /\ AllDigits(SubSeq(text, 9, 10))
       /\ DigitsValue(SubSeq(text, 6, 7)) \in 1..12
       /\ DigitsValue(SubSeq(text, 9, 10)) \in
             1..DaysIn(DigitsValue(SubSeq(text, 1, 4)), DigitsValue(SubSeq(text, 6, 7)))
    THEN <<DigitsValue(SubSeq(text, 1, 4)), DigitsValue(SubSeq(text, 6, 7)),
           DigitsValue(SubSeq(text, 9, 10))>>
    ELSE NaT

\* df['Data'] = pd.to_datetime(df['Data'], errors='coerce');
\* df = df.dropna(subset=['Data'])
ConvertDates(df) ==
    IF ~HasColumn(df, "Data") THEN df
    ELSE [columns |-> df.columns,
          rows |-> SelectSeq([k \in 1..Len(df.rows) |->
                                Put(df.rows[k], "Data", to_datetime(df.rows[k].Data))],
                             LAMBDA r : r.Data # NaT)]

\* mutant of CurrentMonthOnly: the Month column is added and no row is left out
CurrentMonthOnly_NoFilter(df, current_month) ==
    [columns |-> df.columns \cup {"Month"},
     rows |-> [k \in 1..Len(df.rows) |->
                 Put(df.rows[k], "Month", SubSeq(df.rows[k].Data, 1, 2))]]

\* df['Month'] = df['Data'].dt.strftime("%Y-%m");
\* df[df['Month'] == current_month].copy()
CurrentMonthOnly(df, current_month) ==
    [columns |-> df.columns \cup {"Month"},
     rows |-> SelectSeq([k \in 1..Len(df.rows) |->
                           Put(df.rows[k], "Month", SubSeq(df.rows[k].Data, 1, 2))],
                        LAMBDA r : r.Month = current_month)]

\* fetch_and_process_data at clock t
fetch_and_process_data(sh, t) ==
    IF sh.fetch # "ok" THEN EmptyFrame
    ELSE IF Len(sh.rows) < 2 THEN EmptyFrame
    ELSE LET df == ConvertDates(CleanValues(DataFrame(Tail(sh.rows), sh.rows[1])))
         IN  IF HasColumn(df, "Data") /\ ~Empty(df)
             THEN CurrentMonthOnly(df, CurrentMonth(t))
             ELSE df

\* save_current_data_to_db(data_df) for a DataFrame: the daily results file
\* afterwards, the boolean returned and whether save_daily_expenses was called
save_current_data_to_db(file, data_df, t, io) ==
    IF Empty(data_df)
    THEN [file |-> file, ret |-> FALSE, called |-> FALSE]
    ELSE [file   |-> save_daily_expenses(file, data_df, Today(t), t, io).file,
          ret    |-> save_daily_expenses(file, data_df, Today(t), t, io).ret,
          called |-> TRUE]

\* mutant of get_processed_data: the fetched DataFrame is saved even when empty
get_processed_data_AlwaysSave(file, sh, t, io) ==
    [file   |-> save_daily_expenses(file, fetch_and_process_data(sh, t), Today(t), t, io).file,
     ret    |-> fetch_and_process_data(sh, t),
     called |-> TRUE]

\* get_processed_data: the daily results file afterwards, the DataFrame
\* returned and whether save_daily_expenses was called
get_processed_data(file, sh, t, io) ==
    IF ~Empty(fetch_and_process_data(sh, t))
    THEN [file   |-> save_current_data_to_db(file, fetch_and_process_data(sh, t), t, io).file,
          ret    |-> fetch_and_process_data(sh, t),
          called |-> save_current_data_to_db(file, fetch_and_process_data(sh, t), t, io).called]
    ELSE [file |-> file, ret |-> fetch_and_process_data(sh, t), called |-> FALSE]

(***************************************************************************)
(* Inputs of the calls                                                     *)
(***************************************************************************)
\* revenues entered in the sidebar (multiples of 100)
Revenues == {3000, DefaultRevenue}

\* class_percentages: every dict over a subset of PctKeys with values in
\* PctValues; their sums include 150, 151 and 152
PctKeys == {"Aluguel", "Mercado"}
PctValues == {20, 75, 76}
PercentageInputs == UNION {[S -> PctValues] : S \in SUBSET PctKeys}

\* rows of a fetched sheet: a recognised class and one that is not in
\* expense_classes
TxRows == {[Class |-> "Mercado", Value |-> 100], [Class |-> "Outros", Value |-> 40]}

\* DataFrames with the Class and Value columns and at most n rows
FramesUpTo(n) ==
    {[columns |-> {"Class", "Value"}, rows |-> r] :
        r \in UNION {[1..k -> TxRows] : k \in 0..n}}

Frames == FramesUpTo(MaxTx)

\* target_date arguments: two days of one month and the first of the next
Dates == {<<2025, 1, 30>>, <<2025, 1, 31>>, <<2025, 2, 1>>}

\* month arguments
Months == {<<2025, 1>>, <<2025, 2>>, None}

\* the characters of the texts handed to clean_currency_value
Alphabet == {"1", "-", ",", ".", "$", "R", " ", "n", "a", "i", "f"}

Texts == UNION {[1..k -> Alphabet] : k \in 0..MaxChars}

\* the header of the worksheet, and one without the date column
Header == <<"Data", "Class", "Value">>
HeaderNoDate == <<"Class", "Value">>

\* data rows of the worksheet: 2025-01-30, 2025-01-31, 2025-02-01 and a row
\* whose date cell is "n/a"
RowJan30 ==
    <<<<"2", "0", "2", "5", "-", "0", "1", "-", "3", "0">>, "Mercado",
      <<"R", "$", "1", "0", "0">>>>
RowJan31 ==
    <<<<"2", "0", "2", "5", "-", "0", "1", "-", "3", "1">>, "Outros", <<"4", "0">>>>
RowFeb01 ==
    <<<<"2", "0", "2", "5", "-", "0", "2", "-", "0", "1">>, "Mercado",
      <<"R", "$", "1", "0", "0">>>>
RowNoDate == <<<<"n", "/", "a">>, "Mercado", <<"4", "0">>>>

SheetRows == {RowJan30, RowJan31, RowFeb01, RowNoDate}

\* a worksheet with the given header and data rows
Worksheet(header, data) == [fetch |-> "ok", rows |-> <<header>> \o data]

\* the worksheet whose fetch raises, and the worksheet without any row
FailingSheet == [fetch |-> "error", rows |-> <<>>]
BlankSheet == [fetch |-> "ok", rows |-> <<>>]

\* the data rows without their date cell
WithoutDate(data) == [k \in 1..Len(data) |-> Tail(data[k])]

\* worksheets of at most n data rows
SheetsUpTo(n) ==
    {FailingSheet, BlankSheet}
    \cup {Worksheet(Header, data) : data \in UNION {[1..k -> SheetRows] : k \in 0..n}}
    \cup {Worksheet(HeaderNoDate, WithoutDate(data)) : data \in [1..1 -> SheetRows]}

Sheets == SheetsUpTo(MaxTx)

\* the worksheets of the refresh cycles: fetch failing, no row, header only,
\* rows of January, a row of February, a row without a date, and rows under
\* a header without the date column
RefreshSheets ==
    {FailingSheet, BlankSheet,
     Worksheet(Header, <<>>),
     Worksheet(Header, <<RowJan30, RowJan31>>),
     Worksheet(Header, <<RowJan31>>),
     Worksheet(Header, <<RowFeb01>>),
     Worksheet(Header, <<RowNoDate>>),
     Worksheet(HeaderNoDate, <<Tail(RowJan30)>>)}

\* the sessions of the dashboard that may save at the same time
Sessions == {1, 2}

Idle == [pc |-> "idle"]

(***************************************************************************)
(* The calls                                                               *)
(***************************************************************************)
\* FinanceDatabase.__init__ in a directory without the two files
Init ==
    /\ settings_file = ValidFile(default_settings(0))
    /\ daily_results_file = ValidFile(default_results)
    /\ now = 0
    /\ last = [op |-> "__init__"]
    /\ sheet = BlankSheet
    /\ denied = {}
    /\ calls = [p \in Sessions |-> Idle]

\* open(filename, 'r') raises PermissionError for a file the system refuses
\* to open; _load_json catches FileNotFoundError and JSONDecodeError only
OpenRaises(name) == name \in denied

\* what a call leaves in last when the exception reaches its caller
Raised(op) == [op |-> op, raised |-> "PermissionError"]

\* the outcome of the file accesses of a call whose try block covers them:
\* when the file cannot be opened the first open raises, before any write
Medium(name, io) == IF OpenRaises(name) THEN "denied" ELSE io

\* time passes between two calls
Tick ==
    /\ now < MaxClock
    /\ now' = now + 1
    /\ UNCHANGED <<settings_file, daily_results_file, last, outside>>

\* finance_db.update_settings(monthly_revenue, class_percentages)
UpdateSettings(monthly_revenue, class_percentages, io) ==
    \E r \in {update_settings(settings_file, monthly_revenue, class_percentages, now,
                               Medium("settings", io))} :
        /\ settings_file' = r.file
        /\ last' = [op |-> "update_settings", monthly_revenue |-> monthly_revenue,
                    class_percentages |-> class_percentages, t |-> now, ret |-> r.ret]
        /\ UNCHANGED <<daily_results_file, now, outside>>

\* render_settings_sidebar: the "Restaurar Padrões" button
ResetDefaults(io) == UpdateSettings(DefaultRevenue, default_percentages, io)

\* finance_db.get_settings()
GetSettings ==
    /\ last' = IF OpenRaises("settings") THEN Raised("get_settings")
                ELSE [op |-> "get_settings", ret |-> get_settings(settings_file)]
    /\ UNCHANGED <<settings_file, daily_results_file, now, outside>>

\* finance_db.get_expected_amounts()
GetExpectedAmounts ==
    /\ last' = IF OpenRaises("settings") THEN Raised("get_expected_amounts")
                ELSE [op |-> "get_expected_amounts",
                      ret |-> get_expected_amounts(settings_file)]
    /\ UNCHANGED <<settings_file, daily_results_file, now, outside>>

\* the dates of the stored rollups
StoredDates(file) ==
    LET entries == Get(_load_json(file), "daily_expenses", <<>>)
    IN  {entries[i].date : i \in 1..Len(entries)}

\* finance_db.save_daily_expenses(expenses_df, target_date).  Besides the
\* arguments and the return value, last records what the store held before
\* the call (had_date, n_before) and whether the call repeats the previous,
\* successful, one (again).
SaveDailyExpenses(expenses_df, target_date, io) ==
    \E r \in {save_daily_expenses(daily_results_file, expenses_df, target_date, now,
                                   Medium("results", io))},
       date \in {IF target_date = None THEN Today(now) ELSE target_date} :
        /\ daily_results_file' = r.file
        /\ last' = [op |-> "save_daily_expenses", expenses_df |-> expenses_df,
                    target_date |-> date, t |-> now, ret |-> r.ret,
                    had_date |-> date \in StoredDates(daily_results_file),
                    n_before |-> Cardinality(StoredDates(daily_results_file)),
                    again |-> /\ last.op = "save_daily_expenses"
                              /\ last.ret
                              /\ last.expenses_df = expenses_df
                              /\ last.target_date = date]
        /\ UNCHANGED <<settings_file, now, outside>>

\* finance_db.get_monthly_summary(month)
GetMonthlySummary(month) ==
    /\ last' = IF OpenRaises("results") \/ OpenRaises("settings")
                THEN Raised("get_monthly_summary")
                ELSE [op |-> "get_monthly_summary", month |-> month, t |-> now,
                      ret |-> get_monthly_summary(daily_results_file, settings_file,
                                                  month, now)]
    /\ UNCHANGED <<settings_file, daily_results_file, now, outside>>

\* clean_currency_value(value), on the text of a cell about to be cleaned
CleanCurrencyValue ==
    /\ last.op = "cell"
    /\ last' = [op |-> "clean_currency_value", value |-> last.value,
                ret |-> clean_currency_value(last.value)]
    /\ UNCHANGED <<settings_file, daily_results_file, now, outside>>

\* save_daily_expenses(expenses_df, target_date) in session p, up to and
\* including results = self._load_json(self.daily_results_file).  No lock is
\* taken: another session may run between this step and the write.
BeginSave(p, expenses_df, target_date) ==
    /\ calls[p].pc = "idle"
    /\ calls' = [q \in Sessions |->
                   IF q = p
                   THEN [pc |-> "read",
                         results |-> _load_json(daily_results_file),
                         expenses_df |-> expenses_df,
                         target_date |-> IF target_date = None THEN Today(now)
                                         ELSE target_date,
                         t |-> now,
                         overlapped |-> \E o \in Sessions : calls[o].pc = "read"]
                   ELSE IF calls[q].pc = "read"
                   THEN [calls[q] EXCEPT !.overlapped = TRUE]
                   ELSE calls[q]]
    /\ UNCHANGED <<settings_file, daily_results_file, now, last, sheet, denied>>

\* the rest of the call of session p: the entry is built, put into the
\* results read before, and the whole store is written
EndSave(p, io) ==
    /\ calls[p].pc = "read"
    /\ \E r \in {save_daily_expenses_write(daily_results_file, calls[p].results,
                                           calls[p].expenses_df, calls[p].target_date,
                                           calls[p].t, io)} :
          /\ daily_results_file' = r.file
          /\ calls' = [calls EXCEPT ![p] =
                          [pc |-> "done", target_date |-> calls[p].target_date,
                           ret |-> r.ret, overlapped |-> calls[p].overlapped]]
    /\ UNCHANGED <<settings_file, now, last, sheet, denied>>

\* the system starts, or stops, refusing to open a durable file
RevokeAccess(name) ==
    /\ name \notin denied
    /\ denied' = denied \cup {name}
    /\ UNCHANGED <<settings_file, daily_results_file, now, last, sheet, calls>>

RestoreAccess(name) ==
    /\ name \in denied
    /\ denied' = denied \ {name}
    /\ UNCHANGED <<settings_file, daily_results_file, now, last, sheet, calls>>

\* the owner of the worksheet edits it
SheetEdited(sh) ==
    /\ sheet # sh
    /\ sheet' = sh
    /\ UNCHANGED <<settings_file, daily_results_file, now, last, denied, calls>>

\* fetch_and_process_data()
FetchAndProcessData ==
    /\ last' = [op |-> "fetch_and_process_data", t |-> now,
                ret |-> fetch_and_process_data(sheet, now)]
    /\ UNCHANGED <<settings_file, daily_results_file, now, outside>>

\* get_processed_data(): a refresh cycle
GetProcessedData(io) ==
    \E r \in {get_processed_data(daily_results_file, sheet, now, Medium("results", io))} :
        /\ daily_results_file' = r.file
        /\ last' = [op |-> "get_processed_data", t |-> now,
                    fetched |-> r.ret, called |-> r.called]
        /\ UNCHANGED <<settings_file, now, outside>>

\* save_current_data_to_db(): a refresh cycle; data_df is None and the
\* DataFrame is fetched
SaveCurrentDataToDb(io) ==
    \E df \in {fetch_and_process_data(sheet, now)} :
      \E r \in {save_current_data_to_db(daily_results_file, df, now,
                                         Medium("results", io))} :
        /\ daily_results_file' = r.file
        /\ last' = [op |-> "save_current_data_to_db", t |-> now,
                    fetched |-> df, called |-> r.called, ret |-> r.ret]
        /\ UNCHANGED <<settings_file, now, outside>>

(***************************************************************************)
(* Specifications                                                          *)
(***************************************************************************)
\* the budget configuration store, storage working
NextSettings ==
    \/ Tick
    \/ \E r \in Revenues, p \in PercentageInputs : UpdateSettings(r, p, "ok")
    \/ ResetDefaults("ok")
    \/ GetSettings
    \/ GetExpectedAmounts

SpecSettings == Init /\ [][NextSettings]_vars

\* the budget configuration store, writes may fail
NextIO ==
    \/ Tick
    \/ \E r \in Revenues, p \in PercentageInputs, io \in IoOutcomes : UpdateSettings(r, p, io)
    \/ \E io \in IoOutcomes : ResetDefaults(io)
    \/ GetSettings
    \/ GetExpectedAmounts

SpecIO == Init /\ [][NextIO]_vars

\* the daily rollup store, storage working
RollupDates == {<<2025, 1, 31>>, None}

NextRollup ==
    \/ Tick
    \/ \E df \in Frames, d \in RollupDates : SaveDailyExpenses(df, d, "ok")

SpecRollup == Init /\ [][NextRollup]_vars

\* the monthly summary over the rollup store, storage working: one-row
\* DataFrames on three dates
NextSummary ==
    \/ Tick
    \/ \E df \in FramesUpTo(1), d \in Dates : SaveDailyExpenses(df, d, "ok")
    \/ \E m \in Months : GetMonthlySummary(m)

SpecSummary == Init /\ [][NextSummary]_vars

\* both stores together, storage working: the calls a session of the
\* dashboard makes, on few inputs
SessionPercentages ==
    {[c \in {"Aluguel"} |-> 20], [c \in {"Aluguel", "Mercado"} |-> 76]}

Next ==
    \/ Tick
    \/ \E p \in SessionPercentages : UpdateSettings(3000, p, "ok")
    \/ ResetDefaults("ok")
    \/ \E df \in FramesUpTo(1) : SaveDailyExpenses(df, None, "ok")
    \/ \E m \in {<<2025, 1>>, None} : GetMonthlySummary(m)
    \/ GetExpectedAmounts

Spec == Init /\ [][Next]_vars

(***************************************************************************)
(* Budget validation and the expected amounts                              *)
(***************************************************************************)
\* the configuration get_settings reads now
StoredSettings == get_settings(settings_file)
StoredPercentages == Get(StoredSettings, "expense_class_percentages", EmptyDict)
StoredRevenue == Get(StoredSettings, "monthly_expected_revenue", 0)

\* C4: update_settings returns failure exactly when the percentages sum to
\* more than 150, and a rejected call leaves the settings file as it was; a
\* sum of exactly 150 is accepted.
C4_RejectedIffOver150 ==
    /\ [](last.op = "update_settings" =>
            (last.ret <=> SumValues(last.class_percentages) <= 150))
    /\ [][(last'.op = "update_settings" /\ SumValues(last'.class_percentages) > 150)
            => settings_file' = settings_file]_vars

\* C4 witness: a call with a sum of 151 has returned failure
C4_Witness ==
    /\ last.op = "update_settings"
    /\ SumValues(last.class_percentages) = 151
    /\ ~last.ret

\* C5: update_settings is atomic: every step leaves the settings file as it
\* was or holding exactly the new configuration (revenue, percentages and
\* last_updated of the call), also when the write fails or is interrupted.
C5_AtomicUpdate ==
    [][\/ settings_file' = settings_file
       \/ /\ last'.op = "update_settings"
          /\ settings_file' =
                ValidFile([monthly_expected_revenue  |-> last'.monthly_revenue,
                           expense_class_percentages |-> last'.class_percentages,
                           last_updated              |-> last'.t])]_vars

\* C6: the stored category percentages never sum to more than 150.
C6_StoredSumAtMost150 == SumValues(StoredPercentages) <= 150

\* C6 witness: percentages summing to more than 150 were offered and refused
\* while the stored percentages sum to exactly 150
C6_Witness ==
    /\ last.op = "update_settings"
    /\ SumValues(last.class_percentages) > 150
    /\ SumValues(StoredPercentages) = 150

\* C7 as claimed: get_expected_amounts has an entry for every category of the
\* Expense Category Set: revenue * percentage / 100 where a percentage is
\* configured and 0 where none is.
C7_EveryCategoryHasAmount ==
    last.op = "get_expected_amounts" =>
        \A c \in ExpenseClassSet :
            /\ c \in DOMAIN last.ret
            /\ last.ret[c] * 100 = StoredRevenue * Get(StoredPercentages, c, 0)

\* C7 as amended: get_expected_amounts has an entry for exactly the
\* categories with a configured percentage, revenue * percentage / 100 each;
\* a category without a configured percentage has no entry, so that a reader
\* defaulting missing entries to 0 obtains 0 for it.
C7_ConfiguredCategoriesOnly ==
    last.op = "get_expected_amounts" =>
        /\ DOMAIN last.ret = DOMAIN StoredPercentages
        /\ \A c \in DOMAIN last.ret :
                last.ret[c] * 100 = StoredRevenue * StoredPercentages[c]
        /\ \A c \in ExpenseClassSet :
                Get(last.ret, c, 0) * 100 = StoredRevenue * Get(StoredPercentages, c, 0)

\* C7 witness: revenue 5000 and percentages {Aluguel: 20} give 1000 for
\* Aluguel and no entry for the other categories
C7_Witness ==
    /\ last.op = "get_expected_amounts"
    /\ StoredRevenue = 5000
    /\ StoredPercentages = [c \in {"Aluguel"} |-> 20]
    /\ last.ret = [c \in {"Aluguel"} |-> 1000]

(***************************************************************************)
(* The daily rollup store: upsert by date                                  *)
(***************************************************************************)
\* the rollups a reader of the daily results file finds
Entries(file) == Get(_load_json(file), "daily_expenses", <<>>)

\* the sum of the amounts of the rows with index in I
RECURSIVE AmountOfRows(_, _)
AmountOfRows(rows, I) ==
    IF I = {} THEN 0
    ELSE LET i == CHOOSE x \in I : TRUE
         IN  rows[i].Value + AmountOfRows(rows, I \ {i})

\* the sum of the amounts of the transactions of category c
AmountOfClass(rows, c) ==
    AmountOfRows(rows, {i \in 1..Len(rows) : rows[i].Class = c})

\* the rollup holds the transactions rows and their totals, nothing else
HoldsExactly(entry, rows) ==
    /\ entry.expenses = rows
    /\ entry.total_amount = AmountOfRows(rows, 1..Len(rows))
    /\ \A c \in ExpenseClassSet : entry.total_by_class[c] = AmountOfClass(rows, c)

\* no two stored rollups have the same date
OneEntryPerDate(entries) ==
    \A i, j \in 1..Len(entries) : i # j => entries[i].date # entries[j].date

\* C1: the store holds at most one rollup per date, and a successful save for
\* a date leaves exactly the transactions and totals of that save in the
\* rollup of the date (the rollup exists when the date had one before), with
\* the rollups of the other dates as they were while the store is not full.
C1_LastFetchWins ==
    /\ [](OneEntryPerDate(Entries(daily_results_file)))
    /\ [][(last'.op = "save_daily_expenses" /\ last'.ret) =>
            LET old == Entries(daily_results_file)
                new == Entries(daily_results_file')
                mine == {i \in 1..Len(new) : new[i].date = last'.target_date}
            IN  /\ Cardinality(mine) <= 1
                /\ last'.had_date => Cardinality(mine) = 1
                /\ \A i \in mine : HoldsExactly(new[i], last'.expenses_df.rows)
                /\ \/ Len(new) = RetentionLimit
                   \/ \A i \in 1..Len(old) :
                        old[i].date # last'.target_date =>
                            \E j \in 1..Len(new) : new[j] = old[i]]_vars

\* C1 witness: a save has replaced the rollup of a date that had one, by
\* different transactions
C1_Witness ==
    /\ last.op = "save_daily_expenses"
    /\ last.ret
    /\ last.had_date
    /\ ~last.again
    /\ Len(last.expenses_df.rows) = 2
    /\ \E i \in 1..Len(Entries(daily_results_file)) :
          /\ Entries(daily_results_file)[i].date = last.target_date
          /\ Entries(daily_results_file)[i].expenses = last.expenses_df.rows

\* C3 as claimed: a save that repeats the previous save (same transactions,
\* same date) leaves the store exactly as the first one left it.
C3_IdempotentUpsert ==
    [][(last'.op = "save_daily_expenses" /\ last'.again)
        => daily_results_file' = daily_results_file]_vars

\* entries with the timestamp of the rollup dated d set to t
WithTimestamp(entries, d, t) ==
    [i \in 1..Len(entries) |->
        IF entries[i].date = d THEN [entries[i] EXCEPT !.timestamp = t]
        ELSE entries[i]]

\* C3 as amended: a save that repeats the previous save leaves the store as
\* the first one left it except for the timestamp of the rollup of that
\* date, which becomes the time of the second call.
C3_IdempotentUpToTimestamp ==
    [][(last'.op = "save_daily_expenses" /\ last'.again) =>
        /\ daily_results_file'.valid = daily_results_file.valid
        /\ DOMAIN _load_json(daily_results_file') = DOMAIN _load_json(daily_results_file)
        /\ \A k \in DOMAIN _load_json(daily_results_file) \ {"daily_expenses"} :
                _load_json(daily_results_file')[k] = _load_json(daily_results_file)[k]
        /\ Entries(daily_results_file') =
                WithTimestamp(Entries(daily_results_file), last'.target_date, last'.t)]_vars

\* C3 witness: the same save was made twice in a row, the second time at a
\* later clock reading, with another rollup in the store
C3_Witness ==
    /\ last.op = "save_daily_expenses"
    /\ last.again
    /\ last.t > 0
    /\ Len(last.expenses_df.rows) > 0
    /\ Len(Entries(daily_results_file)) = 2
    /\ \E i \in 1..2 :
          /\ Entries(daily_results_file)[i].date = last.target_date
          /\ Entries(daily_results_file)[i].timestamp = last.t

\* C8: every stored rollup has a total for each category of the Expense
\* Category Set, the sum of the amounts of its transactions of that category,
\* and for no other category; its total_amount is the sum of the amounts of
\* all its transactions; and the rollup of a successful save keeps all the
\* transactions saved, those of unrecognised categories included.
C8_TotalsByRecognisedClass ==
    /\ \A i \in 1..Len(Entries(daily_results_file)) :
          LET entry == Entries(daily_results_file)[i]
          IN  /\ DOMAIN entry.total_by_class = ExpenseClassSet
              /\ HoldsExactly(entry, entry.expenses)
    /\ (last.op = "save_daily_expenses" /\ last.ret) =>
          \E i \in 1..Len(Entries(daily_results_file)) :
              /\ Entries(daily_results_file)[i].date = last.target_date
              /\ Entries(daily_results_file)[i].expenses = last.expenses_df.rows

\* C8 witness: a saved rollup holds a transaction of a recognised category
\* and one of an unrecognised category
C8_Witness ==
    /\ last.op = "save_daily_expenses"
    /\ last.ret
    /\ \E i \in 1..Len(Entries(daily_results_file)) :
          LET entry == Entries(daily_results_file)[i]
          IN  /\ entry.date = last.target_date
              /\ \E a, b \in 1..Len(entry.expenses) :
                    /\ entry.expenses[a].Class = "Mercado"
                    /\ entry.expenses[b].Class = "Outros"
              /\ entry.total_by_class["Mercado"] = 100
              /\ entry.total_amount = 140

(***************************************************************************)
(* The daily rollup store: retention                                       *)
(***************************************************************************)
\* The store after one save a day on the 89 days from 2024-11-04 to
\* 2025-01-31, one short of the retention limit.
DayDate(n) ==
    IF n <= 27 THEN <<2024, 11, n + 3>>
    ELSE IF n <= 58 THEN <<2024, 12, n - 27>>
    ELSE <<2025, 1, n - 58>>

PrefilledDays == RetentionLimit - 1

BaseFrame ==
    [columns |-> {"Class", "Value"}, rows |-> <<[Class |-> "Mercado", Value |-> 100]>>]

\* the file those saves leave: the rollups of the days, the latest first
Prefilled(n) ==
    ValidFile(Put(default_results, "daily_expenses",
                  [i \in 1..n |-> daily_data(BaseFrame, DayDate(n + 1 - i), 0)]))

InitRetention ==
    /\ settings_file = ValidFile(default_settings(0))
    /\ daily_results_file = Prefilled(PrefilledDays)
    /\ now = 0
    /\ last = [op |-> "__init__"]
    /\ sheet = BlankSheet
    /\ denied = {}
    /\ calls = [p \in Sessions |-> Idle]

\* dates saved next: one older than every stored date, one stored, and two
\* newer than every stored date
RetentionDates == {<<2024, 11, 3>>, <<2024, 12, 25>>, <<2025, 2, 1>>, <<2025, 2, 2>>}

RetentionFrame ==
    [columns |-> {"Class", "Value"}, rows |-> <<[Class |-> "Outros", Value |-> 40]>>]

RetentionMonths == {<<2024, 11>>, <<2025, 2>>}

NextRetention ==
    \/ Tick
    \/ \E d \in RetentionDates : SaveDailyExpenses(RetentionFrame, d, "ok")
    \/ \E m \in RetentionMonths : GetMonthlySummary(m)

SpecRetention == InitRetention /\ [][NextRetention]_vars

\* the calendar date a is before the calendar date b
Earlier(a, b) ==
    \/ a[1] < b[1]
    \/ a[1] = b[1] /\ a[2] < b[2]
    \/ a[1] = b[1] /\ a[2] = b[2] /\ a[3] < b[3]

\* the stored rollups are in strictly descending order of date
StrictlyDescending(entries) ==
    \A i \in 1..(Len(entries) - 1) : Earlier(entries[i + 1].date, entries[i].date)

\* the number of rollups get_monthly_summary counts over all the months
VisibleEntries ==
    SumSeq([i \in 1..4 |->
        get_monthly_summary(daily_results_file, settings_file,
            <<<<2024, 11>>, <<2024, 12>>, <<2025, 1>>, <<2025, 2>>>>[i], now).daily_entries])

\* C2: the store never holds more than 90 rollups, in descending order of
\* date, and get_monthly_summary over all the months sees just these; after a
\* successful save the stored dates are the 90 most recent among the dates
\* stored before and the date saved (all of them when there are at most 90),
\* and the rollups of the other dates are those held before.
C2_RetainsNinetyMostRecent ==
    /\ [](/\ Len(Entries(daily_results_file)) <= 90
          /\ StrictlyDescending(Entries(daily_results_file))
          /\ VisibleEntries = Len(Entries(daily_results_file)))
    /\ [][(last'.op = "save_daily_expenses" /\ last'.ret) =>
            LET old == Entries(daily_results_file)
                new == Entries(daily_results_file')
                candidates == StoredDates(daily_results_file) \cup {last'.target_date}
                kept == StoredDates(daily_results_file')
            IN  /\ kept \subseteq candidates
                /\ Len(new) = (IF Cardinality(candidates) < 90
                               THEN Cardinality(candidates) ELSE 90)
                /\ \A d \in candidates \ kept : Earlier(d, new[Len(new)].date)
                /\ \A j \in 1..Len(new) :
                      new[j].date # last'.target_date =>
                          \E i \in 1..Len(old) : old[i] = new[j]]_vars

\* C2 witness: a save for a new date reached a store of 90 rollups; the date
\* is stored and the oldest one, 2024-11-04, is not any more
C2_Witness ==
    /\ last.op = "save_daily_expenses"
    /\ last.ret
    /\ last.n_before = 90
    /\ ~last.had_date
    /\ Len(Entries(daily_results_file)) = 90
    /\ last.target_date \in StoredDates(daily_results_file)
    /\ <<2024, 11, 4>> \notin StoredDates(daily_results_file)

(***************************************************************************)
(* The monthly summary                                                     *)
(***************************************************************************)
\* the sum of f over the indices in I
RECURSIVE SumOver(_, _)
SumOver(f, I) ==
    IF I = {} THEN 0
    ELSE LET i == CHOOSE x \in I : TRUE
         IN  f[i] + SumOver(f, I \ {i})

\* the stored rollups whose date falls in the month <<year, month>>
RollupsOfMonth(m) ==
    {i \in 1..Len(Entries(daily_results_file)) :
        /\ Entries(daily_results_file)[i].date[1] = m[1]
        /\ Entries(daily_results_file)[i].date[2] = m[2]}

\* the actual figures of the summary are those of the stored rollups of its
\* month, and of no other rollup
ActualsFromStore(summary) ==
    /\ summary.daily_entries = Cardinality(RollupsOfMonth(summary.month))
    /\ summary.total_amount =
          SumOver([i \in 1..Len(Entries(daily_results_file)) |->
                      Entries(daily_results_file)[i].total_amount],
                  RollupsOfMonth(summary.month))
    /\ DOMAIN summary.total_by_class = ExpenseClassSet
    /\ \A c \in ExpenseClassSet :
          summary.total_by_class[c] =
              SumOver([i \in 1..Len(Entries(daily_results_file)) |->
                          Entries(daily_results_file)[i].total_by_class[c]],
                      RollupsOfMonth(summary.month))

\* C9: get_monthly_summary(m) is about the month m (the month of today when
\* none is given) and takes into account exactly the stored rollups dated in
\* m: per-category totals, total amount and number of entries.
C9_SummaryOfTheMonth ==
    last.op = "get_monthly_summary" =>
        /\ last.ret.month =
              (IF last.month = None THEN SubSeq(Today(last.t), 1, 2) ELSE last.month)
        /\ ActualsFromStore(last.ret)

\* C9 witness: two rollups of January with Mercado = 100 each give
\* Mercado = 200, while a rollup of February holds an amount too
C9_Witness ==
    /\ last.op = "get_monthly_summary"
    /\ last.ret.month = <<2025, 1>>
    /\ last.ret.daily_entries = 2
    /\ last.ret.total_by_class["Mercado"] = 200
    /\ \E i \in RollupsOfMonth(<<2025, 2>>) :
          Entries(daily_results_file)[i].total_amount > 0

\* C10: a summary is never stale: whatever updates and saves preceded the
\* call, its expected revenue and expected amounts are those of the
\* configuration stored when it is made and its actual figures those of the
\* rollups stored when it is made.
C10_SummaryNeverStale ==
    last.op = "get_monthly_summary" =>
        /\ last.ret.expected_revenue = StoredRevenue
        /\ DOMAIN last.ret.expected_amounts = DOMAIN StoredPercentages
        /\ \A c \in DOMAIN StoredPercentages :
              last.ret.expected_amounts[c] * 100 = StoredRevenue * StoredPercentages[c]
        /\ ActualsFromStore(last.ret)

\* C10 witness: a summary made after an accepted update (revenue 3000,
\* Aluguel 20 %) and a save of a transaction shows both
C10_Witness ==
    /\ last.op = "get_monthly_summary"
    /\ StoredRevenue = 3000
    /\ last.ret.expected_revenue = 3000
    /\ last.ret.expected_amounts = [c \in {"Aluguel"} |-> 600]
    /\ last.ret.total_amount = 100
    /\ StoredSettings["last_updated"] > 0

(***************************************************************************)
(* The refresh cycle                                                       *)
(***************************************************************************)
\* refresh cycles over one worksheet, storage working
InitCycles ==
    /\ settings_file = ValidFile(default_settings(0))
    /\ daily_results_file = ValidFile(default_results)
    /\ now = 0
    /\ last = [op |-> "__init__"]
    /\ sheet \in RefreshSheets
    /\ denied = {}
    /\ calls = [p \in Sessions |-> Idle]

NextCycles ==
    \/ Tick
    \/ GetProcessedData("ok")
    \/ SaveCurrentDataToDb("ok")
    \/ GetMonthlySummary(None)

SpecCycles == InitCycles /\ [][NextCycles]_vars

Refreshes == {"get_processed_data", "save_current_data_to_db"}

HasDateColumn(sh) ==
    /\ sh.fetch = "ok"
    /\ Len(sh.rows) >= 1
    /\ sh.rows[1] = Header

\* the data rows of the worksheet sh that satisfy the test on the calendar
\* date written in their date cell
RowsDated(sh, Test(_)) ==
    SelectSeq(Tail(sh.rows), LAMBDA row : to_datetime(row[1]) # NaT /\ Test(to_datetime(row[1])))

\* the entry holds exactly the given worksheet rows, as transactions dated d
SnapshotOf(entry, rows, d) ==
    /\ Len(entry.expenses) = Len(rows)
    /\ \A k \in 1..Len(rows) :
          /\ "Data" \in DOMAIN entry.expenses[k]
          /\ entry.expenses[k].Data = d
          /\ entry.expenses[k].Class = rows[k][2]
          /\ entry.expenses[k].Value = AsUnits(clean_currency_value(rows[k][3]))

InitCurrency ==
    /\ settings_file = ValidFile(default_settings(0))
    /\ daily_results_file = ValidFile(default_results)
    /\ now = 0
    /\ last \in {[op |-> "cell", value |-> value] : value \in Texts}
    /\ sheet = BlankSheet
    /\ denied = {}
    /\ calls = [p \in Sessions |-> Idle]

NextCurrency == CleanCurrencyValue

SpecCurrency == InitCurrency /\ [][NextCurrency]_vars

\* C12 as claimed: for every text clean_currency_value returns a number that
\* is finite and not negative.
C12_NormalizerTotality ==
    last.op = "clean_currency_value" =>
        /\ last.ret.kind = "finite"
        /\ last.ret.num >= 0

(***************************************************************************)
(* The transaction ingestor                                                *)
(***************************************************************************)
\* fetch_and_process_data on every worksheet of at most MaxTx data rows, on
\* the days of the clock
InitIngest ==
    /\ settings_file = ValidFile(default_settings(0))
    /\ daily_results_file = ValidFile(default_results)
    /\ now = 0
    /\ last = [op |-> "__init__"]
    /\ sheet \in Sheets
    /\ denied = {}
    /\ calls = [p \in Sessions |-> Idle]

NextIngest ==
    \/ Tick
    \/ FetchAndProcessData

SpecIngest == InitIngest /\ [][NextIngest]_vars

\* the calendar date d falls in the month of the day of clock t
InMonthOf(d, t) == d[1] = Today(t)[1] /\ d[2] = Today(t)[2]

\* C13: for a worksheet with the date column, the output of
\* fetch_and_process_data holds exactly the data rows whose date cell is a
\* date of the current month, in their order: the rows of other months and
\* the rows whose date is no date are left out, without error; a worksheet of
\* fewer than 2 rows (or whose fetch fails) gives the empty DataFrame.
C13_ExactlyTheRowsOfTheMonth ==
    last.op = "fetch_and_process_data" =>
        /\ (sheet.fetch # "ok" \/ Len(sheet.rows) < 2) => last.ret = EmptyFrame
        /\ (HasDateColumn(sheet) /\ Len(sheet.rows) >= 2) =>
              /\ Len(last.ret.rows) =
                    Len(RowsDated(sheet, LAMBDA d : InMonthOf(d, last.t)))
              /\ \A k \in 1..Len(last.ret.rows) :
                    /\ InMonthOf(last.ret.rows[k].Data, last.t)
                    /\ SnapshotOf([expenses |-> <<last.ret.rows[k]>>],
                                  <<RowsDated(sheet, LAMBDA d : InMonthOf(d, last.t))[k]>>,
                                  last.ret.rows[k].Data)

\* C13 witness: of a row of February and a row of January, fetched in
\* January, only the row of January is in the output
C13_Witness ==
    /\ last.op = "fetch_and_process_data"
    /\ sheet = Worksheet(Header, <<RowFeb01, RowJan31>>)
    /\ last.t = 0
    /\ Len(last.ret.rows) = 1
    /\ last.ret.rows[1].Data = <<2025, 1, 31>>
    /\ last.ret.rows[1].Value = 40

(***************************************************************************)
(* Storage failure                                                         *)
(***************************************************************************)
\* both stores on a medium that may refuse to open a file and may fail
\* during a write
FileNames == {"settings", "results"}

NextStorage ==
    \/ Tick
    \/ \E name \in FileNames : RevokeAccess(name)
    \/ \E name \in FileNames : RestoreAccess(name)
    \/ \E io \in IoOutcomes : UpdateSettings(3000, [c \in {"Aluguel"} |-> 20], io)
    \/ \E df \in FramesUpTo(1), io \in IoOutcomes : SaveDailyExpenses(df, None, io)
    \/ GetSettings
    \/ GetMonthlySummary(None)

SpecStorage == Init /\ [][NextStorage]_vars

\* the file cannot be opened, or its text is not JSON
Unusable(name, file) == OpenRaises(name) \/ ~file.valid

\* C14 as claimed: a read never raises and gives the empty default when its
\* file is unreadable or corrupt (get_settings no settings, get_monthly_summary
\* zero totals and zero entries); a write that returns failure has changed
\* neither file.
C14_StorageFailureDegrades ==
    /\ [][(last' # last /\ last'.op \in {"get_settings", "get_monthly_summary"}) =>
            /\ "ret" \in DOMAIN last'
            /\ (last'.op = "get_settings" /\ Unusable("settings", settings_file))
                  => last'.ret = EmptyDict
            /\ (last'.op = "get_monthly_summary" /\ Unusable("results", daily_results_file))
                  => /\ last'.ret.total_amount = 0
                     /\ last'.ret.daily_entries = 0
                     /\ \A c \in ExpenseClassSet : last'.ret.total_by_class[c] = 0]_vars
    /\ [][(last'.op \in {"update_settings", "save_daily_expenses"} /\ ~last'.ret) =>
            /\ settings_file' = settings_file
            /\ daily_results_file' = daily_results_file]_vars

(***************************************************************************)
(* Overlapping saves                                                       *)
(***************************************************************************)
\* one save per session, the steps of the sessions interleaved
NextOverlap ==
    \/ \E p \in Sessions, df \in FramesUpTo(1), d \in {<<2025, 1, 30>>, <<2025, 1, 31>>} :
          BeginSave(p, df, d)
    \/ \E p \in Sessions : EndSave(p, "ok")

SpecOverlap == Init /\ [][NextOverlap]_vars

\* both sessions have saved with success, for two different dates
BothSaved ==
    /\ \A p \in Sessions : calls[p].pc = "done" /\ calls[p].ret
    /\ calls[1].target_date # calls[2].target_date

\* C15: when the two saves ran one at a time, the rollups of both dates are
\* in the store afterwards; and the write of a save replaces the whole store
\* by what that save had read plus its own rollup, whatever was written in
\* between, which is how one of two overlapping saves is lost.
C15_WholeStoreReadThenWrite ==
    /\ []((BothSaved /\ \A p \in Sessions : ~calls[p].overlapped) =>
            \A p \in Sessions : calls[p].target_date \in StoredDates(daily_results_file))
    /\ [][\A p \in Sessions :
            (calls[p].pc = "read" /\ calls'[p].pc = "done" /\ calls'[p].ret) =>
                StoredDates(daily_results_file') =
                    {calls[p].results["daily_expenses"][i].date :
                        i \in 1..Len(calls[p].results["daily_expenses"])}
                    \cup {calls[p].target_date}]_vars

\* C15 witness: two overlapping saves for two dates both returned success
\* and the store holds the rollup of one date only
C15_Witness ==
    /\ BothSaved
    /\ \A p \in Sessions : calls[p].overlapped
    /\ Cardinality(StoredDates(daily_results_file)) = 1

(***************************************************************************)
(* Monthly actuals after refresh cycles                                    *)
(***************************************************************************)
\* the sum of the amounts of worksheet rows
SheetAmount(rows) ==
    SumSeq([k \in 1..Len(rows) |-> AsUnits(clean_currency_value(rows[k][3]))])

NextRefresh ==
    \/ Tick
    \/ \E sh \in RefreshSheets : SheetEdited(sh)
    \/ \E df \in FramesUpTo(1) : SaveDailyExpenses(df, None, "ok")
    \/ GetProcessedData("ok")
    \/ SaveCurrentDataToDb("ok")

SpecRefresh == Init /\ [][NextRefresh]_vars

\* the extract of the worksheet sh at clock t is empty: the fetch fails, there
\* are fewer than 2 rows, or no row is dated in the current month
EmptyExtract(sh, t) ==
    \/ sh.fetch # "ok"
    \/ Len(sh.rows) < 2
    \/ HasDateColumn(sh) /\ Len(RowsDated(sh, LAMBDA d : InMonthOf(d, t))) = 0

\* C17: a refresh cycle whose extract is empty does not call
\* save_daily_expenses and leaves the results file as it was, and
\* save_current_data_to_db returns False.
C17_EmptyExtractLeavesStore ==
    [][(last' # last /\ last'.op \in Refreshes /\ EmptyExtract(sheet, now)) =>
          /\ ~last'.called
          /\ daily_results_file' = daily_results_file
          /\ last'.op = "save_current_data_to_db" => ~last'.ret]_vars

\* C17 witness: a refresh cycle found no row of the current month while the
\* store held a rollup with a transaction for today, and the rollup is there
C17_Witness ==
    /\ last.op \in Refreshes
    /\ sheet = Worksheet(Header, <<RowFeb01>>)
    /\ EmptyExtract(sheet, last.t)
    /\ now = last.t
    /\ \E i \in 1..Len(Entries(daily_results_file)) :
          /\ Entries(daily_results_file)[i].date = Today(last.t)
          /\ Len(Entries(daily_results_file)[i].expenses) = 1

====
